---- MODULE Spec2Model ----
(***************************************************************************)
(* Field-hospital doctrine engine (doctrine_service_medical.py).           *)
(*                                                                         *)
(* A caller builds a Scenario and calls                                    *)
(* FieldHospitalDoctrine.generate_strategies on it.  The state holds the   *)
(* scenario's six fields, the list the call returned, and the position of  *)
(* the caller (before / after the call).                                   *)
(*                                                                         *)
(* The network wrapper (medevai_api.py) is the second entry point: POST     *)
(* /evaluate converts the request's {severity, count} entries to a         *)
(* casualty list, generates the strategies, awaits the ARBITER ranking     *)
(* call and, when the call returns or fails, answers with the ranked list  *)
(* or with HTTP 500.  request_casualties is the request's casualty         *)
(* entries (its other fields are the scenario's), arbiter the outcome of   *)
(* the ranking call, responses and http_status the answer.                 *)
(*                                                                         *)
(* Representation:                                                         *)
(*  - a Python dict is a function whose DOMAIN is the dict's key set;      *)
(*  - an allocation triple (item, quantity, cost) is a record;             *)
(*  - hours_until_resupply (a float) is held in units of 1/HourUnit hour,  *)
(*    so the literals 3, 4 and 12 of the source appear as 3 * HourUnit..;  *)
(*  - estimated_survival_rate is held in hundredths (0.92 is 92);          *)
(*  - costs and quantities are Python ints and stay integers;              *)
(*  - description and the prose of rationale are left out; rationale       *)
(*    keeps the integer values its f-string interpolates;                  *)
(*  - a coherence score is an exact fraction [num, den]; the fallback's    *)
(*    float sums are computed over the common denominator 1000 * (total    *)
(*    inventory), without the rounding of double arithmetic.               *)
(***************************************************************************)
EXTENDS Integers, Sequences, FiniteSets, TLC

VARIABLES casualties, equipment_inventory, hours_until_resupply,
          expected_incoming_casualties, medevac_available,
          surgical_capability, strategies, pc,
          request_casualties, arbiter, responses, http_status

vars == <<casualties, equipment_inventory, hours_until_resupply,
          expected_incoming_casualties, medevac_available,
          surgical_capability, strategies, pc,
          request_casualties, arbiter, responses, http_status>>

\* ------------------------------------------------------------------ bounds
\* largest number of critical casualties in a scenario
MaxCritical == 10
\* hours_until_resupply is counted in 1/HourUnit hours
HourUnit == 2

\* --------------------------------------------------------------- data model
Severity == {"critical", "urgent", "delayed", "minimal", "expectant"}

\* dict.get(k, default)
Get(d, k, default) == IF k \in DOMAIN d THEN d[k] ELSE default

\* d[k] = v on a dict
Put(d, k, v) == [x \in (DOMAIN d) \cup {k} |-> IF x = k THEN v ELSE d[x]]

EmptyDict == [k \in {} |-> 0]

EQUIPMENT_COSTS ==
    [ tourniquet |-> 30, hemostatic_gauze |-> 45, pressure_bandage |-> 15,
      nasopharyngeal_airway |-> 8, cricothyrotomy_kit |-> 150,
      endotracheal_tube |-> 12,
      chest_seal |-> 25, needle_decompression |-> 12, ventilator |-> 25000,
      iv_fluid_1L |-> 50, blood_unit_O_neg |-> 500,
      blood_unit_type_specific |-> 450,
      surgical_pack_trauma |-> 3000, anesthesia_kit |-> 500, suture_kit |-> 150,
      antibiotics_broad_spectrum |-> 200, morphine_dose |-> 15,
      tranexamic_acid |-> 80, epinephrine |-> 25,
      pulse_oximeter |-> 150, bp_cuff |-> 45 ]

\* slip: the triple's cost is the unit cost, not multiplied by the quantity
Triple_unit_cost(item, qty) == [item |-> item, qty |-> qty, cost |-> EQUIPMENT_COSTS[item]]

\* one allocation triple (item, quantity, EQUIPMENT_COSTS[item] * quantity)
Triple(item, qty) == [item |-> item, qty |-> qty, cost |-> EQUIPMENT_COSTS[item] * qty]

ProtocolAllocation(c, u, d, m) ==
    [ equipment_per_critical |-> c, equipment_per_urgent |-> u,
      equipment_per_delayed |-> d, equipment_per_minimal |-> m ]

Scenario ==
    [ casualties |-> casualties,
      equipment_inventory |-> equipment_inventory,
      hours_until_resupply |-> hours_until_resupply,
      expected_incoming_casualties |-> expected_incoming_casualties,
      medevac_available |-> medevac_available,
      surgical_capability |-> surgical_capability ]

\* ---------------------------------------------------------------- aggregator
RECURSIVE CostLoop(_, _, _)
\* for _, _, cost in triples: total += cost * count
CostLoop(triples, count, total) ==
    IF triples = <<>> THEN total
    ELSE CostLoop(Tail(triples), count, total + Head(triples).cost * count)

\* slip: the minimal tier is multiplied by the delayed count
_calculate_protocol_cost_minimal_by_delayed(protocol, critical, urgent, delayed, minimal) ==
    CostLoop(protocol.equipment_per_minimal, delayed,
      CostLoop(protocol.equipment_per_delayed, delayed,
        CostLoop(protocol.equipment_per_urgent, urgent,
          CostLoop(protocol.equipment_per_critical, critical, 0))))

_calculate_protocol_cost(protocol, critical, urgent, delayed, minimal) ==
    CostLoop(protocol.equipment_per_minimal, minimal,
      CostLoop(protocol.equipment_per_delayed, delayed,
        CostLoop(protocol.equipment_per_urgent, urgent,
          CostLoop(protocol.equipment_per_critical, critical, 0))))

RECURSIVE UsedLoop_overwrite(_, _, _)
\* slip: a later tier's quantity replaces the item's entry instead of adding
UsedLoop_overwrite(triples, count, used) ==
    IF triples = <<>> THEN used
    ELSE UsedLoop_overwrite(Tail(triples), count,
                  Put(used, Head(triples).item, Head(triples).qty * count))

RECURSIVE UsedLoop(_, _, _)
\* for item, qty, _ in triples: used[item] = used.get(item, 0) + qty * count
UsedLoop(triples, count, used) ==
    IF triples = <<>> THEN used
    ELSE UsedLoop(Tail(triples), count,
                  Put(used, Head(triples).item,
                      Get(used, Head(triples).item, 0) + Head(triples).qty * count))

_calculate_equipment_used(protocol, critical, urgent, delayed, minimal) ==
    UsedLoop(protocol.equipment_per_minimal, minimal,
      UsedLoop(protocol.equipment_per_delayed, delayed,
        UsedLoop(protocol.equipment_per_urgent, urgent,
          UsedLoop(protocol.equipment_per_critical, critical, EmptyDict))))

\* slip: an item whose consumption exceeds the stock is left out
EquipmentPreserved_drop_exhausted(scenario, equipment_used) ==
    [k \in { x \in DOMAIN scenario.equipment_inventory :
               Get(scenario.equipment_inventory, x, 0) >= Get(equipment_used, x, 0) } |->
        Get(scenario.equipment_inventory, k, 0) - Get(equipment_used, k, 0)]

\* slip: the reserve is keyed by the consumed items too
EquipmentPreserved_all_keys(scenario, equipment_used) ==
    [k \in (DOMAIN scenario.equipment_inventory) \cup (DOMAIN equipment_used) |->
        Get(scenario.equipment_inventory, k, 0) - Get(equipment_used, k, 0)]

\* slip: the reserve is clamped at zero
EquipmentPreserved_clamped(scenario, equipment_used) ==
    [k \in DOMAIN scenario.equipment_inventory |->
        IF Get(scenario.equipment_inventory, k, 0) < Get(equipment_used, k, 0)
        THEN 0
        ELSE Get(scenario.equipment_inventory, k, 0) - Get(equipment_used, k, 0)]

\* {k: inventory.get(k, 0) - equipment_used.get(k, 0) for k in inventory.keys()}
EquipmentPreserved(scenario, equipment_used) ==
    [k \in DOMAIN scenario.equipment_inventory |->
        Get(scenario.equipment_inventory, k, 0) - Get(equipment_used, k, 0)]

\* ------------------------------------------------------ protocol allocations
march_immediate_protocol ==
    ProtocolAllocation(
      << Triple("tourniquet", 2), Triple("hemostatic_gauze", 4),
         Triple("chest_seal", 1), Triple("needle_decompression", 1),
         Triple("nasopharyngeal_airway", 1), Triple("iv_fluid_1L", 2),
         Triple("blood_unit_O_neg", 3), Triple("tranexamic_acid", 1),
         Triple("morphine_dose", 2) >>,
      << Triple("tourniquet", 1), Triple("pressure_bandage", 2),
         Triple("iv_fluid_1L", 2), Triple("morphine_dose", 2),
         Triple("antibiotics_broad_spectrum", 1) >>,
      << Triple("antibiotics_broad_spectrum", 1), Triple("morphine_dose", 1) >>,
      << Triple("morphine_dose", 1) >>)

golden_hour_protocol ==
    ProtocolAllocation(
      << Triple("tourniquet", 2), Triple("hemostatic_gauze", 3),
         Triple("nasopharyngeal_airway", 1), Triple("iv_fluid_1L", 2),
         Triple("morphine_dose", 2) >>,
      << Triple("pressure_bandage", 2), Triple("iv_fluid_1L", 1),
         Triple("morphine_dose", 1) >>,
      << Triple("morphine_dose", 1) >>,
      << >>)

prolonged_field_care_protocol ==
    ProtocolAllocation(
      << Triple("tourniquet", 2), Triple("hemostatic_gauze", 4),
         Triple("ventilator", 1), Triple("blood_unit_type_specific", 4),
         Triple("iv_fluid_1L", 3), Triple("antibiotics_broad_spectrum", 2),
         Triple("pulse_oximeter", 1), Triple("morphine_dose", 4) >>,
      << Triple("pressure_bandage", 2), Triple("iv_fluid_1L", 2),
         Triple("blood_unit_type_specific", 2),
         Triple("antibiotics_broad_spectrum", 1), Triple("morphine_dose", 3) >>,
      << Triple("antibiotics_broad_spectrum", 1), Triple("morphine_dose", 2) >>,
      << Triple("morphine_dose", 1) >>)

surgical_protocol ==
    ProtocolAllocation(
      << Triple("tourniquet", 2), Triple("surgical_pack_trauma", 1),
         Triple("anesthesia_kit", 1), Triple("ventilator", 1),
         Triple("blood_unit_O_neg", 6), Triple("iv_fluid_1L", 4),
         Triple("antibiotics_broad_spectrum", 2), Triple("morphine_dose", 4) >>,
      << Triple("surgical_pack_trauma", 1), Triple("blood_unit_type_specific", 3),
         Triple("iv_fluid_1L", 3), Triple("antibiotics_broad_spectrum", 1),
         Triple("morphine_dose", 3) >>,
      << Triple("antibiotics_broad_spectrum", 1), Triple("morphine_dose", 2) >>,
      << Triple("morphine_dose", 1) >>)

mass_casualty_protocol ==
    ProtocolAllocation(
      << Triple("tourniquet", 2), Triple("hemostatic_gauze", 3),
         Triple("iv_fluid_1L", 2), Triple("blood_unit_O_neg", 2),
         Triple("morphine_dose", 2) >>,
      << Triple("pressure_bandage", 1), Triple("iv_fluid_1L", 1),
         Triple("morphine_dose", 1) >>,
      << Triple("morphine_dose", 1) >>,
      << >>)

siege_medicine_protocol ==
    ProtocolAllocation(
      << Triple("pressure_bandage", 2), Triple("antibiotics_broad_spectrum", 1),
         Triple("morphine_dose", 3) >>,
      << Triple("pressure_bandage", 1), Triple("antibiotics_broad_spectrum", 1),
         Triple("morphine_dose", 2) >>,
      << Triple("morphine_dose", 1) >>,
      << >>)

\* ------------------------------------------------- int(critical * 0.4), IEEE
\* The literal 0.4 is the double 0xCCCCCCCCCCCCD / 2^53.  Its 52-bit numerator
\* is held in two 26-bit limbs so that every product below fits 32 bits for
\* critical < 40.
Limb == 2^26
PointFourHi == 53687091
PointFourLo == 13421773

RECURSIVE BitLen(_)
BitLen(n) == IF n = 0 THEN 0 ELSE 1 + BitLen(n \div 2)

\* the double nearest to critical * 0.4 (round to nearest, ties to even),
\* as the numerator hi * 2^26 + lo over 2^53
FloatTimesPointFour(critical) ==
    LET full == critical * PointFourLo
        lo   == full % Limb
        hi   == critical * PointFourHi + (full \div Limb)
        \* bits of the exact product beyond the 53 a double keeps
        sh   == BitLen(hi \div (2 * Limb))
        low  == lo % (2^sh)
        kept == lo - low
        odd  == (lo \div (2^sh)) % 2 = 1
        up   == sh > 0 /\ (2 * low > 2^sh \/ (2 * low = 2^sh /\ odd))
        lo2  == IF up THEN kept + 2^sh ELSE kept
    IN  IF lo2 = Limb THEN [hi |-> hi + 1, lo |-> 0] ELSE [hi |-> hi, lo |-> lo2]

\* int(x): truncation of a non-negative double
FloatToInt(x) == x.hi \div (2 * Limb)

\* slip: round(critical * 0.4) in place of int(critical * 0.4)
expectant_count_rounded(critical) == (4 * critical + 5) \div 10

expectant_count(critical) == FloatToInt(FloatTimesPointFour(critical))

treatable_critical(critical) == critical - expectant_count(critical)

\* --------------------------------------------------------- doctrine generators
MedicalStrategy(name, protocol, total_cost, survival_rate, preserved, rationale) ==
    [ name |-> name, protocol |-> protocol, total_cost |-> total_cost,
      estimated_survival_rate |-> survival_rate,
      equipment_preserved |-> preserved, rationale |-> rationale ]

RECURSIVE SumSurvival(_)
SumSurvival(list) ==
    IF list = << >> THEN 0
    ELSE Head(list).survival_probability + SumSurvival(Tail(list))

\* slip: the survival rate is the mean survival probability of the casualties
_doctrine_march_immediate_mean_survival(scenario, critical, urgent, delayed, minimal) ==
    LET protocol == march_immediate_protocol
        total_cost == _calculate_protocol_cost(protocol, critical, urgent, delayed, minimal)
        equipment_used == _calculate_equipment_used(protocol, critical, urgent, delayed, minimal)
    IN  MedicalStrategy("MARCH Immediate Intervention", protocol, total_cost,
                        IF scenario.casualties = << >> THEN 92
                        ELSE SumSurvival(scenario.casualties) \div Len(scenario.casualties),
                        EquipmentPreserved(scenario, equipment_used),
                        [critical |-> critical])

_doctrine_march_immediate(scenario, critical, urgent, delayed, minimal) ==
    LET protocol == march_immediate_protocol
        total_cost == _calculate_protocol_cost(protocol, critical, urgent, delayed, minimal)
        equipment_used == _calculate_equipment_used(protocol, critical, urgent, delayed, minimal)
    IN  MedicalStrategy("MARCH Immediate Intervention", protocol, total_cost, 92,
                        EquipmentPreserved(scenario, equipment_used),
                        [critical |-> critical])

_doctrine_golden_hour(scenario, critical, urgent, delayed, minimal) ==
    LET protocol == golden_hour_protocol
        total_cost == _calculate_protocol_cost(protocol, critical, urgent, delayed, minimal)
        equipment_used == _calculate_equipment_used(protocol, critical, urgent, delayed, minimal)
    IN  MedicalStrategy("Golden Hour Stabilization", protocol, total_cost, 88,
                        EquipmentPreserved(scenario, equipment_used),
                        [critical |-> critical, urgent |-> urgent])

_doctrine_prolonged_field_care(scenario, critical, urgent, delayed, minimal) ==
    LET protocol == prolonged_field_care_protocol
        total_cost == _calculate_protocol_cost(protocol, critical, urgent, delayed, minimal)
        equipment_used == _calculate_equipment_used(protocol, critical, urgent, delayed, minimal)
    IN  MedicalStrategy("Prolonged Field Care", protocol, total_cost, 85,
                        EquipmentPreserved(scenario, equipment_used),
                        [critical |-> critical, urgent |-> urgent])

_doctrine_surgical(scenario, critical, urgent, delayed, minimal) ==
    LET protocol == surgical_protocol
        total_cost == _calculate_protocol_cost(protocol, critical, urgent, delayed, minimal)
        equipment_used == _calculate_equipment_used(protocol, critical, urgent, delayed, minimal)
    IN  MedicalStrategy("NATO Role 2 Surgical", protocol, total_cost, 94,
                        EquipmentPreserved(scenario, equipment_used),
                        [critical |-> critical, urgent |-> urgent])

_doctrine_mass_casualty(scenario, critical, urgent, delayed, minimal) ==
    LET expectant == expectant_count(critical)
        treatable == treatable_critical(critical)
        protocol == mass_casualty_protocol
        \* treatable only, then the expectant care (morphine only) on top
        total_cost == _calculate_protocol_cost(protocol, treatable, urgent, delayed, minimal)
                      + expectant * EQUIPMENT_COSTS["morphine_dose"] * 3
        equipment_used == _calculate_equipment_used(protocol, treatable, urgent, delayed, minimal)
    IN  MedicalStrategy("Mass Casualty Protocol", protocol, total_cost, 68,
                        EquipmentPreserved(scenario, equipment_used),
                        [ total_casualties |->
                              critical + urgent + scenario.expected_incoming_casualties,
                          expectant_count |-> expectant,
                          treatable_patients |-> treatable + urgent ])

_doctrine_siege_medicine(scenario, critical, urgent, delayed, minimal) ==
    LET protocol == siege_medicine_protocol
        total_cost == _calculate_protocol_cost(protocol, critical, urgent, delayed, minimal)
        equipment_used == _calculate_equipment_used(protocol, critical, urgent, delayed, minimal)
    IN  MedicalStrategy("Siege Medicine", protocol, total_cost, 62,
                        EquipmentPreserved(scenario, equipment_used),
                        [expected_incoming_casualties |-> scenario.expected_incoming_casualties])

\* ------------------------------------------------------------------- selector
RECURSIVE CountSeverity(_, _)
\* sum(1 for c in casualties if c.severity == severity)
CountSeverity(list, severity) ==
    IF list = <<>> THEN 0
    ELSE (IF Head(list).severity = severity THEN 1 ELSE 0)
         + CountSeverity(Tail(list), severity)

\* slip: the resupply gate of the evacuation doctrine is left out
golden_hour_applies_no_gate(scenario) ==
    scenario.medevac_available

golden_hour_applies(scenario) ==
    scenario.medevac_available /\ scenario.hours_until_resupply < 3 * HourUnit

\* slip: the field-care gate is set at 8 hours
prolonged_field_care_applies_above_eight(scenario) ==
    scenario.hours_until_resupply > 8 * HourUnit

\* slip: field care is given an upper gate at 12 hours
prolonged_field_care_applies_capped(scenario) ==
    /\ scenario.hours_until_resupply > 4 * HourUnit
    /\ scenario.hours_until_resupply <= 12 * HourUnit

prolonged_field_care_applies(scenario) ==
    scenario.hours_until_resupply > 4 * HourUnit

surgical_applies(scenario) ==
    scenario.surgical_capability

\* slip: the casualty-load gate counts every casualty of the list
mass_casualty_applies_all_casualties(scenario, critical, urgent) ==
    scenario.expected_incoming_casualties > 20 \/ Len(scenario.casualties) > 15

\* slip: >= 20 in place of > 20
mass_casualty_applies_inclusive(scenario, critical, urgent) ==
    scenario.expected_incoming_casualties >= 20 \/ (critical + urgent) > 15

mass_casualty_applies(scenario, critical, urgent) ==
    scenario.expected_incoming_casualties > 20 \/ (critical + urgent) > 15

\* slip: "and" in place of "or"
siege_medicine_applies_both(scenario) ==
    scenario.hours_until_resupply > 12 * HourUnit
    /\ scenario.expected_incoming_casualties > 30

siege_medicine_applies(scenario) ==
    scenario.hours_until_resupply > 12 * HourUnit
    \/ scenario.expected_incoming_casualties > 30

\* slip: the immediate doctrine is generated only when there are casualties
generate_strategies_march_gated(scenario) ==
    LET critical == CountSeverity(scenario.casualties, "critical")
        urgent   == CountSeverity(scenario.casualties, "urgent")
        delayed  == CountSeverity(scenario.casualties, "delayed")
        minimal  == CountSeverity(scenario.casualties, "minimal")
    IN  (IF scenario.casualties # << >>
         THEN << _doctrine_march_immediate(scenario, critical, urgent, delayed, minimal) >>
         ELSE << >>)
        \o (IF golden_hour_applies(scenario)
            THEN << _doctrine_golden_hour(scenario, critical, urgent, delayed, minimal) >>
            ELSE << >>)
        \o (IF prolonged_field_care_applies(scenario)
            THEN << _doctrine_prolonged_field_care(scenario, critical, urgent, delayed, minimal) >>
            ELSE << >>)
        \o (IF surgical_applies(scenario)
            THEN << _doctrine_surgical(scenario, critical, urgent, delayed, minimal) >>
            ELSE << >>)
        \o (IF mass_casualty_applies(scenario, critical, urgent)
            THEN << _doctrine_mass_casualty(scenario, critical, urgent, delayed, minimal) >>
            ELSE << >>)
        \o (IF siege_medicine_applies(scenario)
            THEN << _doctrine_siege_medicine(scenario, critical, urgent, delayed, minimal) >>
            ELSE << >>)

\* slip: the surgical doctrine is evaluated before prolonged field care
generate_strategies_surgical_early(scenario) ==
    LET critical == CountSeverity(scenario.casualties, "critical")
        urgent   == CountSeverity(scenario.casualties, "urgent")
        delayed  == CountSeverity(scenario.casualties, "delayed")
        minimal  == CountSeverity(scenario.casualties, "minimal")
    IN  << _doctrine_march_immediate(scenario, critical, urgent, delayed, minimal) >>
        \o (IF golden_hour_applies(scenario)
            THEN << _doctrine_golden_hour(scenario, critical, urgent, delayed, minimal) >>
            ELSE << >>)
        \o (IF surgical_applies(scenario)
            THEN << _doctrine_surgical(scenario, critical, urgent, delayed, minimal) >>
            ELSE << >>)
        \o (IF prolonged_field_care_applies(scenario)
            THEN << _doctrine_prolonged_field_care(scenario, critical, urgent, delayed, minimal) >>
            ELSE << >>)
        \o (IF mass_casualty_applies(scenario, critical, urgent)
            THEN << _doctrine_mass_casualty(scenario, critical, urgent, delayed, minimal) >>
            ELSE << >>)
        \o (IF siege_medicine_applies(scenario)
            THEN << _doctrine_siege_medicine(scenario, critical, urgent, delayed, minimal) >>
            ELSE << >>)

generate_strategies(scenario) ==
    LET critical == CountSeverity(scenario.casualties, "critical")
        urgent   == CountSeverity(scenario.casualties, "urgent")
        delayed  == CountSeverity(scenario.casualties, "delayed")
        minimal  == CountSeverity(scenario.casualties, "minimal")
    IN  << _doctrine_march_immediate(scenario, critical, urgent, delayed, minimal) >>
        \o (IF golden_hour_applies(scenario)
            THEN << _doctrine_golden_hour(scenario, critical, urgent, delayed, minimal) >>
            ELSE << >>)
        \o (IF prolonged_field_care_applies(scenario)
            THEN << _doctrine_prolonged_field_care(scenario, critical, urgent, delayed, minimal) >>
            ELSE << >>)
        \o (IF surgical_applies(scenario)
            THEN << _doctrine_surgical(scenario, critical, urgent, delayed, minimal) >>
            ELSE << >>)
        \o (IF mass_casualty_applies(scenario, critical, urgent)
            THEN << _doctrine_mass_casualty(scenario, critical, urgent, delayed, minimal) >>
            ELSE << >>)
        \o (IF siege_medicine_applies(scenario)
            THEN << _doctrine_siege_medicine(scenario, critical, urgent, delayed, minimal) >>
            ELSE << >>)

\* ------------------------------------------------------------ scenario inputs
\* base survival probability by severity, in hundredths
_get_survival_probability(severity) ==
    CASE severity = "critical"  -> 65
      [] severity = "urgent"    -> 85
      [] severity = "delayed"   -> 95
      [] severity = "minimal"   -> 98
      [] severity = "expectant" -> 10
      [] OTHER                  -> 90

Casualty(severity) ==
    [severity |-> severity, survival_probability |-> _get_survival_probability(severity)]

\* n casualties of one severity
Repeat(severity, n) == [i \in 1..n |-> Casualty(severity)]

CasualtyList(critical, urgent, delayed, minimal, expectant) ==
    Repeat("expectant", expectant) \o Repeat("minimal", minimal)
    \o Repeat("critical", critical) \o Repeat("delayed", delayed)
    \o Repeat("urgent", urgent)

UrgentCounts == {0, 2, 6}

\* <<delayed, minimal, expectant>>
OtherCounts == { <<0, 0, 0>>, <<2, 1, 0>>, <<2, 1, 3>> }

CasualtyLists ==
    { CasualtyList(c, u, o[1], o[2], o[3]) :
        c \in 0..MaxCritical, u \in UrgentCounts, o \in OtherCounts }

\* the inventory of the module's example scenario
ExampleInventory ==
    [ tourniquet |-> 20, hemostatic_gauze |-> 50, pressure_bandage |-> 100,
      nasopharyngeal_airway |-> 10, chest_seal |-> 15,
      needle_decompression |-> 10, ventilator |-> 3, iv_fluid_1L |-> 200,
      blood_unit_O_neg |-> 30, blood_unit_type_specific |-> 40,
      surgical_pack_trauma |-> 10, antibiotics_broad_spectrum |-> 100,
      morphine_dose |-> 200 ]

\* a depleted inventory: short of several items, without most, and holding
\* one item no protocol names
ScarceInventory ==
    [ tourniquet |-> 1, iv_fluid_1L |-> 4, ventilator |-> 0,
      pressure_bandage |-> 3, stretcher |-> 4 ]

Inventories == { ExampleInventory, ScarceInventory, EmptyDict }

HoursValues ==
    { 3 * HourUnit - 1, 3 * HourUnit, 4 * HourUnit, 8 * HourUnit,
      12 * HourUnit, 12 * HourUnit + 1, 24 * HourUnit }

IncomingValues == { 15, 20, 21, 30, 31 }

\* -------------------------------------------------------------- state machine
Init ==
    /\ casualties \in CasualtyLists
    /\ equipment_inventory \in Inventories
    /\ hours_until_resupply \in HoursValues
    /\ expected_incoming_casualties \in IncomingValues
    /\ medevac_available \in BOOLEAN
    /\ surgical_capability \in BOOLEAN
    /\ strategies = << >>
    /\ pc = "ready"
    /\ request_casualties = << >>
    /\ arbiter = "none"
    /\ responses = << >>
    /\ http_status = 0

\* slip: the reserve of the first doctrine is written back to the inventory
GenerateStrategies_consumes_inventory ==
    /\ pc = "ready"
    /\ strategies' = generate_strategies(Scenario)
    /\ equipment_inventory' = strategies'[1].equipment_preserved
    /\ pc' = "done"
    /\ UNCHANGED <<casualties, hours_until_resupply,
                   expected_incoming_casualties, medevac_available,
                   surgical_capability,
                   request_casualties, arbiter, responses, http_status>>

\* strategies = doctrine.generate_strategies(scenario)
GenerateStrategies ==
    /\ pc = "ready"
    /\ strategies' = generate_strategies(Scenario)
    /\ pc' = "done"
    /\ UNCHANGED <<casualties, equipment_inventory, hours_until_resupply,
                   expected_incoming_casualties, medevac_available,
                   surgical_capability,
                   request_casualties, arbiter, responses, http_status>>

Next == GenerateStrategies

Spec == Init /\ [][Next]_vars

\* ------------------------------------------------------------ network wrapper
\* str.lower() on the severity strings the requests carry
Lower(text) ==
    CASE text = "CRITICAL" -> "critical"
      [] text = "URGENT"   -> "urgent"
      [] OTHER             -> text

\* Severity(casualty_input.severity.lower()): the member, or ValueError
ParseSeverity(text) ==
    IF Lower(text) \in Severity
    THEN [ok |-> TRUE, value |-> Lower(text)]
    ELSE [ok |-> FALSE, value |-> "ValueError"]

RECURSIVE ConvertCasualties_skip_unknown(_, _)
\* slip: an entry of unknown severity is skipped
ConvertCasualties_skip_unknown(inputs, casualties_list) ==
    IF inputs = << >> THEN [ok |-> TRUE, value |-> casualties_list]
    ELSE LET severity == ParseSeverity(Head(inputs).severity)
         IN  IF ~ severity.ok
             THEN ConvertCasualties_skip_unknown(Tail(inputs), casualties_list)
             ELSE ConvertCasualties_skip_unknown(Tail(inputs),
                    casualties_list \o Repeat(severity.value, Head(inputs).count))

RECURSIVE ConvertLoop(_, _)
\* for casualty_input in request.casualties: ... casualties_list.append(...)
ConvertLoop(inputs, casualties_list) ==
    IF inputs = << >> THEN [ok |-> TRUE, value |-> casualties_list]
    ELSE LET severity == ParseSeverity(Head(inputs).severity)
         IN  IF ~ severity.ok
             THEN [ok |-> FALSE, value |-> severity.value]
             ELSE ConvertLoop(Tail(inputs),
                    casualties_list \o Repeat(severity.value, Head(inputs).count))

ConvertCasualties(inputs, casualties_list) == ConvertLoop(inputs, casualties_list)

\* ------------------------------------------------------------ coherence scores
Score(num, den) == [num |-> num, den |-> den]

\* the default 0.5 of result.get("score", 0.5) and coherence_scores.get(i, 0.5)
DefaultScore == Score(1, 2)

\* a >= b on scores
ScoreGeq(a, b) ==
    IF a.den = b.den THEN a.num >= b.num
    ELSE a.num * b.den >= b.num * a.den

RECURSIVE SumValues(_)
\* sum(d.values())
SumValues(d) ==
    IF DOMAIN d = {} THEN 0
    ELSE LET k == CHOOSE x \in DOMAIN d : TRUE
         IN  d[k] + SumValues([x \in (DOMAIN d) \ {k} |-> d[x]])

Min(a, b) == IF a < b THEN a ELSE b

Max(a, b) == IF a > b THEN a ELSE b

\* the score of one strategy, as a numerator over 1000 * total inventory;
\* total > 0 and patients > 0
FallbackScore(scenario, strategy, total, patients) ==
    LET preserved == SumValues(strategy.equipment_preserved)
        rate == strategy.estimated_survival_rate
        base == 4 * rate * total
        surge == IF scenario.expected_incoming_casualties > 20
                 THEN 300 * preserved
                 ELSE 300 * (total - preserved)
        timeline ==
            IF scenario.hours_until_resupply < 3 * HourUnit
            THEN (IF 5 * preserved < 2 * total THEN 200 * total ELSE 0)
            ELSE IF scenario.hours_until_resupply > 10 * HourUnit
                 THEN (IF 5 * preserved > 3 * total THEN 200 * total ELSE 0)
                 ELSE 0
        cost == IF strategy.total_cost < 50 * rate * patients
                THEN 100 * total ELSE 0
    IN  Score(Min(1000 * total, Max(0, base + surge + timeline + cost)), 1000 * total)

\* the scores by strategy index, or the ZeroDivisionError of the two divisions
_simulate_coherence_fallback(scenario, strategy_list) ==
    LET total == SumValues(scenario.equipment_inventory)
        patients == Len(scenario.casualties)
    IN  IF strategy_list # << >> /\ (total = 0 \/ patients = 0)
        THEN [ok |-> FALSE, value |-> "ZeroDivisionError"]
        ELSE [ok |-> TRUE,
              value |-> [i \in 0..(Len(strategy_list) - 1) |->
                           FallbackScore(scenario, strategy_list[i + 1], total, patients)]]

\* scores[i] = result.get("score", 0.5) for i, result in enumerate(data["all"])
ArbiterScores(results) ==
    [i \in 0..(Len(results) - 1) |-> Get(results[i + 1], "score", DefaultScore)]

\* the bodies the ranking service answers with: the "all" list of results
ArbiterResults ==
    { << >>,
      << [score |-> Score(90, 100)] >>,
      << [score |-> Score(20, 100)], [score |-> Score(90, 100)] >>,
      << [score |-> Score(20, 100)], EmptyDict, [score |-> Score(90, 100)] >>,
      << [score |-> Score(20, 100)], [score |-> Score(50, 100)],
         [score |-> Score(90, 100)], [score |-> Score(90, 100)],
         [score |-> Score(100, 100)], [score |-> Score(0, 100)] >> }

StrategyResponse(strategy, coherence_score) ==
    [ name |-> strategy.name, total_cost |-> strategy.total_cost,
      estimated_survival_rate |-> strategy.estimated_survival_rate,
      equipment_preserved |-> strategy.equipment_preserved,
      rationale |-> strategy.rationale,
      coherence_score |-> coherence_score ]

\* slip: one response per score received, not per strategy
BuildResponses_per_score(strategy_list, coherence_scores) ==
    [i \in 1..Cardinality({j \in 1..Len(strategy_list) : (j - 1) \in DOMAIN coherence_scores}) |->
        StrategyResponse(strategy_list[i], Get(coherence_scores, i - 1, DefaultScore))]

\* for i, strategy in enumerate(strategies): responses.append(...)
BuildResponses(strategy_list, coherence_scores) ==
    [i \in 1..Len(strategy_list) |->
        StrategyResponse(strategy_list[i], Get(coherence_scores, i - 1, DefaultScore))]

RECURSIVE InsertDescending(_, _)
\* x goes behind every entry whose score is >= its own (the sort is stable)
InsertDescending(sorted, x) ==
    IF sorted = << >> THEN << x >>
    ELSE IF ScoreGeq(Head(sorted).coherence_score, x.coherence_score)
         THEN << Head(sorted) >> \o InsertDescending(Tail(sorted), x)
         ELSE << x >> \o sorted

RECURSIVE SortLoop(_, _)
SortLoop(list, sorted) ==
    IF list = << >> THEN sorted
    ELSE SortLoop(Tail(list), InsertDescending(sorted, Head(list)))

\* slip: the list is returned in generation order
SortByCoherence_unsorted(list) == list

\* responses.sort(key=lambda x: x.coherence_score, reverse=True)
SortByCoherence(list) == SortLoop(list, << >>)

\* ------------------------------------------------------------- request inputs
CasualtyInput(severity, count) == [severity |-> severity, count |-> count]

RequestCasualtyLists ==
    { << >>,
      << CasualtyInput("critical", 2) >>,
      << CasualtyInput("CRITICAL", 2), CasualtyInput("urgent", 1) >>,
      << CasualtyInput("minimal", 0) >>,
      << CasualtyInput("URGENT", 3), CasualtyInput("expectant", 1),
         CasualtyInput("delayed", 1) >>,
      << CasualtyInput("severe", 1) >>,
      << CasualtyInput("critical", 2), CasualtyInput("severe", 1) >>,
      << CasualtyInput("walking", 0), CasualtyInput("urgent", 1) >> }

\* ------------------------------------------------- state machine of /evaluate
ApiInit ==
    /\ request_casualties \in RequestCasualtyLists
    /\ equipment_inventory \in Inventories
    /\ hours_until_resupply \in HoursValues
    /\ expected_incoming_casualties \in IncomingValues
    /\ medevac_available \in BOOLEAN
    /\ surgical_capability \in BOOLEAN
    /\ casualties = << >>
    /\ strategies = << >>
    /\ pc = "request"
    /\ arbiter = "none"
    /\ responses = << >>
    /\ http_status = 0

ScenarioInputs ==
    <<equipment_inventory, hours_until_resupply, expected_incoming_casualties,
      medevac_available, surgical_capability, request_casualties>>

\* raise HTTPException(status_code=500, detail=str(e))
Fail ==
    /\ responses' = << >>
    /\ http_status' = 500
    /\ pc' = "responded"

\* return responses, built from the scores and sorted
Respond(coherence_scores) ==
    /\ responses' = SortByCoherence(BuildResponses(strategies, coherence_scores))
    /\ http_status' = 200
    /\ pc' = "responded"

\* evaluate_scenario up to the await of the ranking call
EvaluateScenario ==
    /\ pc = "request"
    /\ LET converted == ConvertCasualties(request_casualties, << >>)
       IN  \/ /\ ~ converted.ok
              /\ Fail
              /\ UNCHANGED <<casualties, strategies, arbiter>>
           \/ /\ converted.ok
              /\ casualties' = converted.value
              /\ strategies' = generate_strategies([Scenario EXCEPT !.casualties = converted.value])
              /\ pc' = "awaiting"
              /\ UNCHANGED <<arbiter, responses, http_status>>
    /\ UNCHANGED ScenarioInputs

\* the ranking call returns 2xx with a body; evaluate_scenario runs to its end
ArbiterResponds ==
    /\ pc = "awaiting"
    /\ \E results \in ArbiterResults :
         Respond(ArbiterScores(results))
    /\ arbiter' = "ok"
    /\ UNCHANGED <<casualties, strategies>>
    /\ UNCHANGED ScenarioInputs

\* the ranking call raises (unreachable, timeout, non-2xx): the fallback runs,
\* and evaluate_scenario runs to its end
ArbiterFails ==
    /\ pc = "awaiting"
    /\ LET fallback == _simulate_coherence_fallback(Scenario, strategies)
       IN  \/ /\ fallback.ok
              /\ Respond(fallback.value)
           \/ /\ ~ fallback.ok
              /\ Fail
    /\ arbiter' = "failed"
    /\ UNCHANGED <<casualties, strategies>>
    /\ UNCHANGED ScenarioInputs

ApiNext == EvaluateScenario \/ ArbiterResponds \/ ArbiterFails

ApiSpec == ApiInit /\ [][ApiNext]_vars

\* ================================================================ properties
MARCH    == "MARCH Immediate Intervention"
GOLDEN   == "Golden Hour Stabilization"
PFC      == "Prolonged Field Care"
SURGICAL == "NATO Role 2 Surgical"
MASCAL   == "Mass Casualty Protocol"
SIEGE    == "Siege Medicine"

EvaluationOrder == << MARCH, GOLDEN, PFC, SURGICAL, MASCAL, SIEGE >>

Names(list) == { list[i].name : i \in 1..Len(list) }

NameCount(list, name) == Cardinality({ i \in 1..Len(list) : list[i].name = name })

Rank(name) == CHOOSE r \in 1..Len(EvaluationOrder) : EvaluationOrder[r] = name

\* number of casualties of one severity, counted on the index set
Tier(severity) ==
    Cardinality({ i \in 1..Len(casualties) : casualties[i].severity = severity })

Indicator(b) == IF b THEN 1 ELSE 0

\* the current scenario with another resupply horizon
WithHours(h) == [Scenario EXCEPT !.hours_until_resupply = h]

RECURSIVE SumCost(_)
SumCost(triples) ==
    IF triples = << >> THEN 0 ELSE Head(triples).cost + SumCost(Tail(triples))

RECURSIVE SumQty(_, _)
SumQty(triples, item) ==
    IF triples = << >> THEN 0
    ELSE (IF Head(triples).item = item THEN Head(triples).qty ELSE 0)
         + SumQty(Tail(triples), item)

\* the critical-tier count a returned strategy operates on
CriticalTierOf(st) ==
    IF st.name = MASCAL
    THEN Tier("critical") - st.rationale.expectant_count
    ELSE Tier("critical")

\* sum over the four tiers of (triple cost x tier count)
TierCostSum(st) ==
    SumCost(st.protocol.equipment_per_critical) * CriticalTierOf(st)
    + SumCost(st.protocol.equipment_per_urgent) * Tier("urgent")
    + SumCost(st.protocol.equipment_per_delayed) * Tier("delayed")
    + SumCost(st.protocol.equipment_per_minimal) * Tier("minimal")

\* the expectant-care term of Mass-Casualty Triage
ExpectantCare(st) ==
    IF st.name = MASCAL
    THEN st.rationale.expectant_count * 3 * EQUIPMENT_COSTS["morphine_dose"]
    ELSE 0

\* per-item consumption: sum over the four tiers of (quantity x tier count)
Consumption(st, item) ==
    SumQty(st.protocol.equipment_per_critical, item) * CriticalTierOf(st)
    + SumQty(st.protocol.equipment_per_urgent, item) * Tier("urgent")
    + SumQty(st.protocol.equipment_per_delayed, item) * Tier("delayed")
    + SumQty(st.protocol.equipment_per_minimal, item) * Tier("minimal")

\* C1: whatever the scenario, the returned list is non-empty and contains the
\* Immediate Intervention strategy.
C1_ImmediateAlwaysPresent ==
    pc = "done" => Len(strategies) >= 1 /\ MARCH \in Names(strategies)

\* the empty casualty list with an empty inventory still yields the strategy
C1_Witness ==
    /\ pc = "done"
    /\ casualties = << >>
    /\ equipment_inventory = EmptyDict
    /\ MARCH \in Names(strategies)

\* C2: every doctrine is returned at most once and exactly when its predicate
\* holds on the scenario.
C2_ExactlyWhenApplicable ==
    pc = "done" =>
      /\ Names(strategies) \subseteq { EvaluationOrder[r] : r \in 1..6 }
      /\ NameCount(strategies, MARCH) = 1
      /\ NameCount(strategies, GOLDEN) =
           Indicator(medevac_available /\ hours_until_resupply < 3 * HourUnit)
      /\ NameCount(strategies, PFC) =
           Indicator(hours_until_resupply > 4 * HourUnit)
      /\ NameCount(strategies, SURGICAL) = Indicator(surgical_capability)
      /\ NameCount(strategies, MASCAL) =
           Indicator(expected_incoming_casualties > 20
                     \/ Tier("critical") + Tier("urgent") > 15)
      /\ NameCount(strategies, SIEGE) =
           Indicator(hours_until_resupply > 12 * HourUnit
                     \/ expected_incoming_casualties > 30)

\* Mass-Casualty Triage selected by the casualty load alone, with the
\* incoming count exactly at its threshold
C2_Witness ==
    /\ pc = "done"
    /\ expected_incoming_casualties = 20
    /\ Tier("critical") + Tier("urgent") = 16
    /\ MASCAL \in Names(strategies)
    /\ SIEGE \notin Names(strategies)

\* the example: 2 critical, 2 urgent, 2 delayed, 1 minimal, 8.0 hours,
\* 15 incoming, medevac and surgery available
ExampleScenario ==
    /\ Tier("critical") = 2 /\ Tier("urgent") = 2
    /\ Tier("delayed") = 2 /\ Tier("minimal") = 1
    /\ Len(casualties) = 7
    /\ hours_until_resupply = 8 * HourUnit
    /\ expected_incoming_casualties = 15
    /\ medevac_available /\ surgical_capability

C4_FixedOrder ==
    pc = "done" =>
      /\ strategies[1].name = MARCH
      /\ \A i, j \in 1..Len(strategies) :
           i < j => Rank(strategies[i].name) < Rank(strategies[j].name)

\* a list in which prolonged field care and surgery both appear
C4_Witness ==
    /\ pc = "done"
    /\ Len(strategies) = 5
    /\ PFC \in Names(strategies)
    /\ SURGICAL \in Names(strategies)

\* C5 as stated: some scenario makes generate_strategies return all six
\* doctrines in one list.
C5_SomeScenarioReturnsAllSix ==
    \E h \in HoursValues, n \in IncomingValues, m \in BOOLEAN, g \in BOOLEAN :
      Len(generate_strategies(
            [Scenario EXCEPT !.hours_until_resupply = h,
                             !.expected_incoming_casualties = n,
                             !.medevac_available = m,
                             !.surgical_capability = g])) = 6

\* C5 (amended): Evacuation Stabilization and Prolonged Field Care are never
\* returned together, so a result holds at most five doctrines.
C5_AtMostFive ==
    pc = "done" =>
      /\ ~ (GOLDEN \in Names(strategies) /\ PFC \in Names(strategies))
      /\ Len(strategies) <= 5

\* five doctrines in one result, the evacuation doctrine among them
C5_Witness ==
    /\ pc = "done"
    /\ Len(strategies) = 5
    /\ GOLDEN \in Names(strategies)

\* C6: every returned strategy's total_cost is the sum over the four tiers of
\* (triple cost x tier count), plus the expectant-care term for Mass-Casualty
\* Triage, exactly.
C6_TotalCostIsAggregate ==
    pc = "done" =>
      \A i \in 1..Len(strategies) :
        strategies[i].total_cost
          = TierCostSum(strategies[i]) + ExpectantCare(strategies[i])

\* Mass-Casualty Triage with expectant patients and all four tiers populated
C6_Witness ==
    /\ pc = "done"
    /\ \E i \in 1..Len(strategies) :
         /\ strategies[i].name = MASCAL
         /\ strategies[i].rationale.expectant_count > 0
         /\ strategies[i].total_cost > 0
    /\ Tier("minimal") > 0 /\ Tier("delayed") > 0 /\ Tier("urgent") > 0

\* C7: for every returned strategy and every inventory key, the reserve plus
\* the strategy's consumption of the item is the inventory count.
C7_ReservePlusConsumption ==
    pc = "done" =>
      \A i \in 1..Len(strategies) :
        \A k \in DOMAIN equipment_inventory :
          /\ k \in DOMAIN strategies[i].equipment_preserved
          /\ strategies[i].equipment_preserved[k] + Consumption(strategies[i], k)
               = equipment_inventory[k]

\* a strategy whose consumption exceeds the stock of an item
C7_Witness ==
    /\ pc = "done"
    /\ \E i \in 1..Len(strategies) :
         \E k \in DOMAIN equipment_inventory :
           /\ Consumption(strategies[i], k) > equipment_inventory[k]
           /\ strategies[i].equipment_preserved[k] < 0

\* C8: in Mass-Casualty Triage expectant_count is floor(critical * 0.4), that
\* is floor(2 * critical / 5), and treatable_critical is the rest.
C8_ExpectantIsFloor ==
    pc = "done" =>
      \A i \in 1..Len(strategies) :
        strategies[i].name = MASCAL =>
          LET expectant == strategies[i].rationale.expectant_count
              treatable == strategies[i].rationale.treatable_patients - Tier("urgent")
          IN  /\ expectant = (2 * Tier("critical")) \div 5
              /\ treatable = Tier("critical") - expectant
              /\ expectant >= 0 /\ treatable >= 0

\* 10 critical casualties: 4 expectant, 6 treatable
C8_Witness ==
    /\ pc = "done"
    /\ Tier("critical") = 10
    /\ \E i \in 1..Len(strategies) :
         /\ strategies[i].name = MASCAL
         /\ strategies[i].rationale.expectant_count = 4
         /\ strategies[i].rationale.treatable_patients - Tier("urgent") = 6

\* C9: raising hours_until_resupply to a value above 12, all else equal,
\* yields a result that contains Extreme Conservation.
C9_RaisingHoursAddsSiege ==
    pc = "done" =>
      \A h \in HoursValues :
        (h > hours_until_resupply /\ h > 12 * HourUnit)
          => SIEGE \in Names(generate_strategies(WithHours(h)))

\* a result without Extreme Conservation, before the increase
C9_Witness ==
    /\ pc = "done"
    /\ hours_until_resupply <= 12 * HourUnit
    /\ SIEGE \notin Names(strategies)
    /\ \E h \in HoursValues : h > 12 * HourUnit

\* C10 as stated: raising hours_until_resupply past 12, all else equal, keeps
\* every doctrine of the result at the lower value.
C10_RaisingHoursRemovesNothing ==
    pc = "done" =>
      \A h \in HoursValues :
        (h > hours_until_resupply /\ h > 12 * HourUnit)
          => Names(strategies) \subseteq Names(generate_strategies(WithHours(h)))

\* C10 (amended): raising hours_until_resupply past 12, all else equal, keeps
\* every doctrine of the result at the lower value except Evacuation
\* Stabilization.
C10_RaisingHoursRemovesOnlyEvacuation ==
    pc = "done" =>
      \A h \in HoursValues :
        (h > hours_until_resupply /\ h > 12 * HourUnit)
          => (Names(strategies) \ {GOLDEN})
               \subseteq Names(generate_strategies(WithHours(h)))

\* a result below 12 hours that holds prolonged field care and mass-casualty
\* triage
C10_Witness ==
    /\ pc = "done"
    /\ hours_until_resupply <= 12 * HourUnit
    /\ PFC \in Names(strategies)
    /\ MASCAL \in Names(strategies)
    /\ \E h \in HoursValues : h > 12 * HourUnit

\* number of doctrines whose predicate holds on the scenario
ApplicableCount ==
    1 + Indicator(medevac_available /\ hours_until_resupply < 3 * HourUnit)
      + Indicator(hours_until_resupply > 4 * HourUnit)
      + Indicator(surgical_capability)
      + Indicator(expected_incoming_casualties > 20
                  \/ Tier("critical") + Tier("urgent") > 15)
      + Indicator(hours_until_resupply > 12 * HourUnit
                  \/ expected_incoming_casualties > 30)

\* C11: a doctrine whose consumption of an item exceeds the stock is still
\* returned, with the negative difference inventory - consumption as reserve.
C11_ExhaustionIsNotAnError ==
    pc = "done" =>
      /\ Len(strategies) = ApplicableCount
      /\ \A i \in 1..Len(strategies) :
           \A k \in DOMAIN equipment_inventory :
             Consumption(strategies[i], k) > equipment_inventory[k] =>
               /\ k \in DOMAIN strategies[i].equipment_preserved
               /\ strategies[i].equipment_preserved[k]
                    = equipment_inventory[k] - Consumption(strategies[i], k)
               /\ strategies[i].equipment_preserved[k] < 0

\* the surgical doctrine needs more ventilators than the example stock holds
C11_Witness ==
    /\ pc = "done"
    /\ equipment_inventory = ExampleInventory
    /\ \E i \in 1..Len(strategies) :
         /\ strategies[i].name = SURGICAL
         /\ strategies[i].equipment_preserved["ventilator"] < 0

\* C12 as stated: when the ranking call fails, the fallback recovers and the
\* caller receives one scored entry per generated strategy, never an error.
C12_FallbackAlwaysRecovers ==
    (pc = "responded" /\ arbiter = "failed") =>
      /\ http_status = 200
      /\ Len(responses) = Len(strategies)

\* the fields of a response entry the doctrine engine produced
SameDoctrine(response, strategy) ==
    /\ response.name = strategy.name
    /\ response.total_cost = strategy.total_cost
    /\ response.estimated_survival_rate = strategy.estimated_survival_rate
    /\ response.equipment_preserved = strategy.equipment_preserved

\* C13: a successful response holds exactly the doctrines generate_strategies
\* returns for the scenario, with their cost, survival rate and reserve,
\* whatever the ranking call did.
C13_RankingKeepsDoctrineSet ==
    http_status = 200 =>
      LET generated == generate_strategies(Scenario)
      IN  /\ Len(responses) = Len(generated)
          /\ Names(responses) = Names(generated)
          /\ \A i \in 1..Len(generated) :
               \E j \in 1..Len(responses) : SameDoctrine(responses[j], generated[i])

\* the ranking service scored fewer candidates than were sent, and the
\* response is not in generation order
C13_Witness ==
    /\ http_status = 200
    /\ arbiter = "ok"
    /\ Len(responses) >= 3
    /\ responses[1].name # MARCH
    /\ \E j \in 1..Len(responses) : responses[j].coherence_score = DefaultScore

\* C14: a successful response is sorted by coherence_score, descending.
C14_SortedDescending ==
    http_status = 200 =>
      \A i \in 1..(Len(responses) - 1) :
        ScoreGeq(responses[i].coherence_score, responses[i + 1].coherence_score)

\* fallback scores that put another doctrine ahead of the first generated
C14_Witness ==
    /\ http_status = 200
    /\ arbiter = "failed"
    /\ Len(responses) >= 3
    /\ responses[1].name # MARCH
    /\ ~ ScoreGeq(responses[Len(responses)].coherence_score,
                  responses[1].coherence_score)

\* the severity strings Severity(text.lower()) rejects
UnknownSeverity(text) ==
    text \notin { "critical", "urgent", "delayed", "minimal", "expectant",
                  "CRITICAL", "URGENT" }

HasUnknownSeverity ==
    \E i \in 1..Len(request_casualties) : UnknownSeverity(request_casualties[i].severity)

\* C15: a request with one entry of unknown severity fails with HTTP 500 and
\* no strategy list, whatever its other entries.
C15_UnknownSeverityFails ==
    HasUnknownSeverity =>
      /\ pc \in {"request", "responded"}
      /\ strategies = << >>
      /\ responses = << >>
      /\ pc = "responded" => http_status = 500

\* a valid entry followed by an unknown one
C15_Witness ==
    /\ pc = "responded"
    /\ http_status = 500
    /\ Len(request_casualties) = 2
    /\ ~ UnknownSeverity(request_casualties[1].severity)
    /\ request_casualties[1].count > 0
    /\ UnknownSeverity(request_casualties[2].severity)

SurvivalRateOf(name) ==
    CASE name = MARCH    -> 92
      [] name = GOLDEN   -> 88
      [] name = PFC      -> 85
      [] name = SURGICAL -> 94
      [] name = MASCAL   -> 68
      [] name = SIEGE    -> 62

\* C17: estimated_survival_rate is the doctrine's constant in every scenario.
C17_SurvivalRateIsConstant ==
    pc = "done" =>
      \A i \in 1..Len(strategies) :
        strategies[i].estimated_survival_rate = SurvivalRateOf(strategies[i].name)

\* a scenario with expectant casualties that returns five doctrines
C17_Witness ==
    /\ pc = "done"
    /\ Tier("expectant") > 0
    /\ Tier("critical") > 0
    /\ Len(strategies) = 5
    /\ MASCAL \in Names(strategies)
    /\ SIEGE \in Names(strategies)

\* C18 as stated: the returned list has at least 4 and at most 6 entries.
C18_FourToSix ==
    pc = "done" => (Len(strategies) >= 4 /\ Len(strategies) <= 6)

\* the items a protocol names in any tier
ItemsNamed(protocol) ==
    { protocol.equipment_per_critical[i].item : i \in 1..Len(protocol.equipment_per_critical) }
    \cup { protocol.equipment_per_urgent[i].item : i \in 1..Len(protocol.equipment_per_urgent) }
    \cup { protocol.equipment_per_delayed[i].item : i \in 1..Len(protocol.equipment_per_delayed) }
    \cup { protocol.equipment_per_minimal[i].item : i \in 1..Len(protocol.equipment_per_minimal) }

\* C19: the keys of equipment_preserved are exactly the inventory's keys; an
\* unused inventory item keeps its full count.
C19_ReserveKeysAreInventoryKeys ==
    pc = "done" =>
      \A i \in 1..Len(strategies) :
        /\ DOMAIN strategies[i].equipment_preserved = DOMAIN equipment_inventory
        /\ \A k \in DOMAIN equipment_inventory :
             k \notin ItemsNamed(strategies[i].protocol) =>
               strategies[i].equipment_preserved[k] = equipment_inventory[k]

\* morphine is consumed but not stocked, a stretcher is stocked but not used
C19_Witness ==
    /\ pc = "done"
    /\ equipment_inventory = ScarceInventory
    /\ \E i \in 1..Len(strategies) :
         /\ Consumption(strategies[i], "morphine_dose") > 0
         /\ "morphine_dose" \notin DOMAIN strategies[i].equipment_preserved
         /\ strategies[i].equipment_preserved["stretcher"] = 4

\* the consumption map of a returned strategy
EquipmentUsedOf(st) ==
    _calculate_equipment_used(st.protocol, CriticalTierOf(st), Tier("urgent"),
                              Tier("delayed"), Tier("minimal"))

\* C20: the consumption map holds, for exactly the items the protocol names,
\* the sum over all four tiers of quantity x tier count.
C20_ConsumptionSumsAllTiers ==
    pc = "done" =>
      \A i \in 1..Len(strategies) :
        LET used == EquipmentUsedOf(strategies[i])
        IN  /\ DOMAIN used = ItemsNamed(strategies[i].protocol)
            /\ \A k \in ItemsNamed(strategies[i].protocol) :
                 used[k] = Consumption(strategies[i], k)
            /\ strategies[i].name = MARCH =>
                 used["morphine_dose"]
                   = 2 * Tier("critical") + 2 * Tier("urgent")
                     + Tier("delayed") + Tier("minimal")

\* all four tiers populated, so morphine accumulates over four tiers
C20_Witness ==
    /\ pc = "done"
    /\ Tier("critical") > 0 /\ Tier("urgent") > 0
    /\ Tier("delayed") > 0 /\ Tier("minimal") > 0
    /\ EquipmentUsedOf(strategies[1])["morphine_dose"]
         > 2 * Tier("critical") + 2 * Tier("urgent")

ConsumptionCost(used) ==
    SumValues([k \in DOMAIN used |-> used[k] * EQUIPMENT_COSTS[k]])

\* C22: total_cost is the consumption priced at unit cost for five doctrines;
\* for Mass-Casualty Triage it exceeds it by 45 per expectant patient, whose
\* morphine is not taken from the reserve.
C22_CostAgreesWithConsumption ==
    pc = "done" =>
      \A i \in 1..Len(strategies) :
        LET st == strategies[i]
            used == EquipmentUsedOf(st)
        IN  IF st.name = MASCAL
            THEN /\ st.total_cost
                      = ConsumptionCost(used) + 45 * st.rationale.expectant_count
                 /\ "morphine_dose" \in DOMAIN equipment_inventory =>
                      st.equipment_preserved["morphine_dose"]
                        = equipment_inventory["morphine_dose"]
                          - ( 2 * (Tier("critical") - st.rationale.expectant_count)
                              + Tier("urgent") + Tier("delayed") )
            ELSE st.total_cost = ConsumptionCost(used)

\* Mass-Casualty Triage with expectant patients and morphine in stock
C22_Witness ==
    /\ pc = "done"
    /\ "morphine_dose" \in DOMAIN equipment_inventory
    /\ \E i \in 1..Len(strategies) :
         /\ strategies[i].name = MASCAL
         /\ strategies[i].rationale.expectant_count >= 2
         /\ strategies[i].total_cost
              > ConsumptionCost(EquipmentUsedOf(strategies[i]))

RECURSIVE WithoutExpectant(_)
\* the casualty list with its expectant-severity entries removed
WithoutExpectant(list) ==
    IF list = << >> THEN << >>
    ELSE (IF Head(list).severity = "expectant" THEN << >> ELSE << Head(list) >>)
         \o WithoutExpectant(Tail(list))

\* numbers of expectant casualties the scenario is re-evaluated with
ExpectantCounts == {0, 1, 4}

\* the current scenario with n expectant casualties instead of its own
WithExpectant(n) ==
    [Scenario EXCEPT !.casualties = WithoutExpectant(casualties) \o Repeat("expectant", n)]

\* name, cost and reserve of every strategy of a list, in order
Outcome(list) ==
    [i \in 1..Len(list) |->
       << list[i].name, list[i].total_cost, list[i].equipment_preserved >>]

\* C23: the number of expectant-severity casualties changes neither the
\* doctrines returned nor any strategy's total_cost or equipment_preserved.
C23_ExpectantCasualtiesIgnored ==
    pc = "done" =>
      \A n \in ExpectantCounts :
        Outcome(generate_strategies(WithExpectant(n))) = Outcome(strategies)

\* expectant casualties lift the list above 15 while critical + urgent is at 15
C23_Witness ==
    /\ pc = "done"
    /\ Tier("expectant") = 3
    /\ Tier("critical") + Tier("urgent") = 15
    /\ expected_incoming_casualties <= 20
    /\ MASCAL \notin Names(strategies)

====
